---- MODULE Spec2Model ----
(***************************************************************************)
(* glwindow (src/glwindow/src/lib.rs): the window / GL context / surface   *)
(* lifecycle of App, driven by the winit event loop through the            *)
(* ApplicationHandler callbacks resumed, suspended, window_event,          *)
(* about_to_wait and exiting, with create_gl_context, gl_config_picker and *)
(* Window::run.                                                            *)
(*                                                                         *)
(* Every callback runs to completion on the one event-loop thread, so a    *)
(* callback is one action; exiting is two steps (its two statements) so    *)
(* that the state between them can be observed.  A panic (unwrap, expect,  *)
(* assert!) unwinds out of run_app: pc = "panicked" and run never returns. *)
(* The event loop is an external event source: it may deliver its signals  *)
(* in any order, and, since event_loop.exit() only sets a flag that the    *)
(* loop reads when the current iteration is over, it may still deliver     *)
(* signals after exit() was called and before it calls exiting.  The model *)
(* covers the runs in which run_app itself returns Ok(()).                 *)
(***************************************************************************)
EXTENDS Integers, Sequences, FiniteSets, TLC

VARIABLES
    gl_display,      \* App.gl_display: "Builder" | "Init"
    gl_context,      \* App.gl_context: Option of [id, config, api, current]
    gl_state,        \* App.gl_state: Option of [gl_surface, window]
    renderer,        \* App.renderer: Option of renderer identity
    exit_state,      \* App.exit_state: Ok | Err(e)
    app_state,       \* App.app_state: the caller's S
    cursor_grabbed,  \* App.window_info.cursor_grabbed
    exit_requested,  \* the event loop's exit flag, set by event_loop.exit()
    pc,              \* position of Window::run
    run_result,      \* what Window::run returned
    last,            \* history: the signal handled last
    ops,             \* history: the calls the last callback made, in order
    n_windows,       \* history: windows realized so far (window identities)
    n_negotiations,  \* history: calls of create_gl_context so far
    n_renderers,     \* history: R::new calls so far
    first_error,     \* history: the first error stored in exit_state
    handler_exit,    \* history: handle_event has returned AppControl::Exit
    awake,           \* history: the lifecycle signal handled last was resumed
    configs,         \* gl_config_picker's input (selector runs)
    picked           \* gl_config_picker's output (selector runs)

vars ==
    << gl_display, gl_context, gl_state, renderer, exit_state, app_state,
       cursor_grabbed, exit_requested, pc, run_result, last, ops, n_windows,
       n_negotiations, n_renderers, first_error, handler_exit, awake, configs,
       picked >>

\* ------------------------------------------------------------------ bounds
MaxWindows == 2
MaxConfigs == 3

\* ------------------------------------------------------------ value shapes
None == [some |-> FALSE]
Some(v) == [some |-> TRUE, val |-> v]
Ok == [ok |-> TRUE]
Err(e) == [ok |-> FALSE, err |-> e]
Call(c, a, r) == [call |-> c, arg |-> a, res |-> r]
unwrap_or(o, d) == IF o.some THEN o.val ELSE d

\* The caller's application state S is opaque: two values tell a change.
AppStates == {"s0", "s1"}
\* Box<dyn Error> values: what handle_event returns, and what realizing the
\* display or the window fails with.
HandlerErrors == {"e1", "e2"}
RealizeError == "OsError"

\* PhysicalSize<u32>: two sizes without a zero dimension (a surface has one
\* of these), and sizes with a zero width, a zero height, and both.
Sizes == {<<1, 1>>, <<2, 1>>}
ZeroSizes == {<<0, 0>>, <<0, 1>>, <<1, 0>>}

\* WindowEvent: Resized(size), and CloseRequested for the other variants.
ResizedEvents ==
    {[kind |-> "Resized", width |-> sz[1], height |-> sz[2]] : sz \in Sizes \cup ZeroSizes}
OtherEvents == {[kind |-> "CloseRequested", width |-> 0, height |-> 0]}
WindowEvents == OtherEvents \cup ResizedEvents
NoEvent == [kind |-> "none", width |-> 0, height |-> 0]

\* Result<AppControl, Box<dyn Error>>
HandlerResults ==
    {[ctl |-> "Continue", err |-> ""], [ctl |-> "Exit", err |-> ""]}
        \cup {[ctl |-> "Err", err |-> e] : e \in HandlerErrors}

Signal(k, ev) == [kind |-> k, event |-> ev]

\* ------------------------------------------------- Configuration Selector
\* glutin Config: num_samples() and supports_transparency() (an Option<bool>).
SampleCounts == {1, 2, 4, 8}
Configs ==
    {[num_samples |-> s, supports_transparency |-> t] :
        s \in SampleCounts, t \in {None, Some(FALSE), Some(TRUE)}}
CandidateSeqs == UNION {[1..n -> Configs] : n \in 0..MaxConfigs}

\* A selector in which a transparent accumulator is never replaced by a
\* candidate without transparency.
reducer_transparency_first(accum, config) ==
    LET ct == unwrap_or(config.supports_transparency, FALSE)
        at == unwrap_or(accum.supports_transparency, FALSE)
    IN  IF (ct /\ ~at) \/ (ct = at /\ config.num_samples > accum.num_samples)
        THEN config
        ELSE accum

\* A closure that also replaces the accumulator on an equal sample count, so
\* that the latest of several equal candidates is kept.
reducer_not_strict(accum, config) ==
    LET transparency_check ==
            unwrap_or(config.supports_transparency, FALSE)
                /\ ~unwrap_or(accum.supports_transparency, FALSE)
    IN  IF transparency_check \/ config.num_samples >= accum.num_samples
        THEN config
        ELSE accum

\* The closure given to reduce.
reducer(accum, config) ==
    LET transparency_check ==
            unwrap_or(config.supports_transparency, FALSE)
                /\ ~unwrap_or(accum.supports_transparency, FALSE)
    IN  IF transparency_check \/ config.num_samples > accum.num_samples
        THEN config
        ELSE accum

RECURSIVE fold(_, _)
fold(accum, rest) ==
    IF rest = <<>> THEN accum ELSE fold(reducer(accum, Head(rest)), Tail(rest))

\* Iterator::reduce: None on an empty iterator, the first item seeds the fold.
reduce(cs) == IF cs = <<>> THEN None ELSE Some(fold(Head(cs), Tail(cs)))

\* gl_config_picker before its final unwrap(): None is the unwrap panicking.
gl_config_picker(cs) == reduce(cs)

\* The configs display_builder.build can hand back: what the picker picks
\* from some list of candidates the platform offers.
DisplayCandidates ==
    {[num_samples |-> 4, supports_transparency |-> Some(FALSE)],
     [num_samples |-> 2, supports_transparency |-> Some(TRUE)]}
PickedConfigs ==
    {gl_config_picker(cs).val :
        cs \in UNION {[1..n -> DisplayCandidates] : n \in 1..MaxConfigs}}

\* --------------------------------------------------- Capability Negotiator
ApiLevels == <<"OpenGl(default)", "Gles(None)", "OpenGl(2.1)">>
DriverAccepts == [{ApiLevels[i] : i \in 1..3} -> BOOLEAN]

Attempt(accept, i) ==
    Call("create_context", ApiLevels[i], IF accept[ApiLevels[i]] THEN "ok" ELSE "err")

\* A negotiator that tries the legacy level before the GLES level.
create_gl_context_legacy_first(accept) ==
    IF accept[ApiLevels[1]]
    THEN [calls |-> <<Attempt(accept, 1)>>, api |-> Some(ApiLevels[1])]
    ELSE IF accept[ApiLevels[3]]
    THEN [calls |-> <<Attempt(accept, 1), Attempt(accept, 3)>>,
          api |-> Some(ApiLevels[3])]
    ELSE IF accept[ApiLevels[2]]
    THEN [calls |-> <<Attempt(accept, 1), Attempt(accept, 3), Attempt(accept, 2)>>,
          api |-> Some(ApiLevels[2])]
    ELSE [calls |-> <<Attempt(accept, 1), Attempt(accept, 3), Attempt(accept, 2)>>,
          api |-> None]

\* create_gl_context: the nested unwrap_or_else chain; api = None is the
\* final expect("failed to create context") panicking.
create_gl_context(accept) ==
    IF accept[ApiLevels[1]]
    THEN [calls |-> <<Attempt(accept, 1)>>, api |-> Some(ApiLevels[1])]
    ELSE IF accept[ApiLevels[2]]
    THEN [calls |-> <<Attempt(accept, 1), Attempt(accept, 2)>>,
          api |-> Some(ApiLevels[2])]
    ELSE IF accept[ApiLevels[3]]
    THEN [calls |-> <<Attempt(accept, 1), Attempt(accept, 2), Attempt(accept, 3)>>,
          api |-> Some(ApiLevels[3])]
    ELSE [calls |-> <<Attempt(accept, 1), Attempt(accept, 2), Attempt(accept, 3)>>,
          api |-> None]

\* --------------------------------------------------------------- App state
\* App::new, as called by Window::run.
Init ==
    /\ gl_display = "Builder"
    /\ gl_context = None
    /\ gl_state = None
    /\ renderer = None
    /\ exit_state = Ok
    /\ app_state \in AppStates
    /\ cursor_grabbed \in BOOLEAN
    /\ exit_requested = FALSE
    /\ pc = "running"
    /\ run_result = None
    /\ last = Signal("none", NoEvent)
    /\ ops = <<>>
    /\ n_windows = 0
    /\ n_negotiations = 0
    /\ n_renderers = 0
    /\ first_error = None
    /\ handler_exit = FALSE
    /\ awake = FALSE
    /\ configs = <<>>
    /\ picked = None

\* The fields of App (and the loop's exit flag and run's position) after a
\* callback, with the history of that callback.
Commit(k, calls, d, c, g, r, e, a, x, p, nw, nc, nr) ==
    /\ last' = k
    /\ ops' = calls
    /\ gl_display' = d
    /\ gl_context' = c
    /\ gl_state' = g
    /\ renderer' = r
    /\ exit_state' = e
    /\ app_state' = a
    /\ exit_requested' = x
    /\ pc' = p
    /\ n_windows' = nw
    /\ n_negotiations' = nc
    /\ n_renderers' = nr
    /\ awake' = (k.kind = "resumed" \/ (k.kind # "suspended" /\ awake))
    /\ UNCHANGED << cursor_grabbed, run_result, configs, picked >>

\* A panic inside a callback: the fields keep what the callback had assigned
\* before it, and the unwinding leaves run_app.
Panic(k, calls, d, c, g, nw, nc) ==
    Commit(k, calls, d, c, g, renderer, exit_state, app_state, exit_requested,
           "panicked", nw, nc, n_renderers)

\* The history of exit_state: the first error stored in it.
first_recorded(e) == IF first_error.some \/ e.ok THEN first_error ELSE Some(e.err)

\* ------------------------------------------------------------ App::resumed
\* set_cursor_visible, then set_cursor_grab(Confined).or_else(Locked).unwrap()
\* when window_info.cursor_grabbed.
GrabOutcomes == IF cursor_grabbed THEN {"Confined", "Locked", "fail"} ELSE {"none"}

cursor_calls(grab) ==
    <<Call("set_cursor_visible", "", "ok")>> \o
        CASE grab = "none" -> <<>>
          [] grab = "Confined" -> <<Call("set_cursor_grab", "Confined", "ok")>>
          [] grab = "Locked" ->
                <<Call("set_cursor_grab", "Confined", "err"),
                  Call("set_cursor_grab", "Locked", "ok")>>
          [] grab = "fail" ->
                <<Call("set_cursor_grab", "Confined", "err"),
                  Call("set_cursor_grab", "Locked", "err")>>

\* A renderer slot that is filled anew on every activation.
insert_always(r, nr) ==
    [renderer |-> Some(nr + 1), n |-> nr + 1,
     calls |-> <<Call("load_with", "", "ok"), Call("R::new", "", "ok")>>]

\* A get_or_insert_with whose closure is never run: the renderer slot stays
\* as it was.
insert_skipped(r, nr) == [renderer |-> r, n |-> nr, calls |-> <<>>]

\* self.renderer.get_or_insert_with(|| { gl::Gl::load_with(..); R::new(gl) })
get_or_insert_with(r, nr) ==
    IF r.some
    THEN [renderer |-> r, n |-> nr, calls |-> <<>>]
    ELSE [renderer |-> Some(nr + 1), n |-> nr + 1,
          calls |-> <<Call("load_with", "", "ok"), Call("R::new", "", "ok")>>]

resumed_signal == Signal("resumed", NoEvent)

\* A replace whose result nobody asserts on: a pair already stored is
\* dropped and the new one takes its place.
assert_dropped(old) == pc

\* assert!(self.gl_state.replace(..).is_none()): the loop goes on only when
\* no pair was stored before.
assert_is_none(old) == IF old.some THEN "panicked" ELSE pc

\* A set_swap_interval whose error is unwrapped.
swap_interval_unwrapped(vsync_ok, p) == IF vsync_ok THEN p ELSE "panicked"

\* if let Err(res) = set_swap_interval(..) { eprintln!(..) }: the error is
\* printed and resumed goes on to where it was going.
swap_interval_logged(vsync_ok, p) == p

\* The part of resumed after the match: the surface, make_current, the
\* renderer, vsync and the live resource set.  d, c, nc are gl_display,
\* gl_context and the negotiation count as the match left them, w the window
\* it realized, gl_config the config it yielded.
resumed_tail(calls, d, c, w, gl_config, nc) ==
    \E surface \in {"attrs_err", "surface_err", "ok"} :
        IF surface = "attrs_err"
        THEN Panic(resumed_signal,
                   calls \o <<Call("build_surface_attributes", "", "err")>>,
                   d, c, gl_state, w, nc)
        ELSE IF surface = "surface_err"
        THEN Panic(resumed_signal,
                   calls \o <<Call("build_surface_attributes", "", "ok"),
                              Call("create_window_surface", "", "err")>>,
                   d, c, gl_state, w, nc)
        ELSE \E size \in Sizes, current_ok \in BOOLEAN :
            LET calls1 == calls \o <<Call("build_surface_attributes", "", "ok"),
                                     Call("create_window_surface", "", "ok")>>
                gl_surface == [id |-> w, config |-> gl_config,
                               width |-> size[1], height |-> size[2]]
            IN  IF ~c.some
                THEN Panic(resumed_signal, calls1, d, c, gl_state, w, nc)
                ELSE IF ~current_ok
                THEN Panic(resumed_signal,
                           calls1 \o <<Call("make_current", "", "err")>>,
                           d, c, gl_state, w, nc)
                ELSE \E vsync_ok \in BOOLEAN :
                    LET ctx == Some([c.val EXCEPT !.current = TRUE])
                        ri == get_or_insert_with(renderer, n_renderers)
                        calls2 ==
                            calls1 \o <<Call("make_current", "", "ok")>> \o ri.calls
                                \o <<Call("set_swap_interval", "",
                                          IF vsync_ok THEN "ok" ELSE "err")>>
                                \o <<Call("replace_gl_state", "", "ok")>>
                        new_state == Some([gl_surface |-> gl_surface, window |-> w])
                    IN  Commit(resumed_signal, calls2, d, ctx, new_state,
                               ri.renderer, exit_state, app_state, exit_requested,
                               swap_interval_logged(vsync_ok,
                                                    assert_is_none(gl_state)),
                               w, nc, ri.n)

\* A Builder arm that forgets to record that the display was built.
display_still_builder == "Builder"

\* self.gl_display = GlDisplayCreationState::Init, the statement between the
\* config and the creation of the context.
display_initialized == "Init"

\* GlDisplayCreationState::Builder: build the display and the window, pick the
\* config, create the context.
resumed_builder ==
    \E built \in BOOLEAN :
        IF ~built
        THEN Commit(resumed_signal, <<Call("build", "", "err")>>, gl_display,
                    gl_context, gl_state, renderer, Err(RealizeError), app_state,
                    TRUE, pc, n_windows, n_negotiations, n_renderers)
        ELSE \E gl_config \in PickedConfigs, grab \in GrabOutcomes :
            LET w == n_windows + 1
                calls1 == <<Call("build", "", "ok")>> \o cursor_calls(grab)
            IN  IF grab = "fail"
                THEN Panic(resumed_signal, calls1, gl_display, gl_context,
                           gl_state, w, n_negotiations)
                ELSE \E accept \in DriverAccepts :
                    LET neg == create_gl_context(accept)
                        calls2 == calls1 \o <<Call("create_gl_context", "", "")>>
                                         \o neg.calls
                    IN  IF ~neg.api.some
                        THEN Panic(resumed_signal, calls2, display_initialized,
                                   gl_context, gl_state, w,
                                   n_negotiations + 1)
                        ELSE resumed_tail(calls2, display_initialized,
                                 Some([id |-> n_negotiations + 1,
                                       config |-> gl_config,
                                       api |-> neg.api.val,
                                       current |-> FALSE]),
                                 w, gl_config, n_negotiations + 1)

\* GlDisplayCreationState::Init: a new window for the stored context's config.
resumed_init ==
    IF ~gl_context.some
    THEN Panic(resumed_signal, <<>>, gl_display, gl_context, gl_state,
               n_windows, n_negotiations)
    ELSE \E realized \in BOOLEAN :
        LET gl_config == gl_context.val.config
        IN  IF ~realized
            THEN Commit(resumed_signal, <<Call("finalize_window", "", "err")>>,
                        gl_display, gl_context, gl_state, renderer,
                        Err(RealizeError), app_state, TRUE, pc, n_windows,
                        n_negotiations, n_renderers)
            ELSE \E grab \in GrabOutcomes :
                LET w == n_windows + 1
                    calls1 == <<Call("finalize_window", "", "ok")>>
                                  \o cursor_calls(grab)
                IN  IF grab = "fail"
                    THEN Panic(resumed_signal, calls1, gl_display, gl_context,
                               gl_state, w, n_negotiations)
                    ELSE resumed_tail(calls1, gl_display, gl_context, w,
                                      gl_config, n_negotiations)

resumed ==
    /\ pc = "running"
    /\ n_windows < MaxWindows
    /\ IF gl_display = "Builder" THEN resumed_builder ELSE resumed_init
    /\ first_error' = first_recorded(exit_state')
    /\ UNCHANGED handler_exit

\* ---------------------------------------------------------- App::suspended
suspended_signal == Signal("suspended", NoEvent)

drop_gl_state ==
    IF gl_state.some
    THEN <<Call("drop_surface", "", "ok"), Call("drop_window", "", "ok")>>
    ELSE <<>>

\* A suspended that destroys the context with the surface, so that the next
\* activation starts from the display builder again.
suspended_destroys_context ==
    /\ pc = "running"
    /\ Commit(suspended_signal, drop_gl_state \o <<Call("drop_context", "", "ok")>>,
              "Builder", None, None, renderer, exit_state, app_state,
              exit_requested, pc, n_windows, n_negotiations, n_renderers)
    /\ UNCHANGED << first_error, handler_exit >>

\* A deactivate that stores the context back as it was, still current.
left_current(ctx) == ctx

\* make_not_current().unwrap().treat_as_possibly_current(): the same context,
\* no longer current on the thread.
make_not_current(ctx) == [ctx EXCEPT !.current = FALSE]

suspended ==
    /\ pc = "running"
    /\ IF ~gl_context.some
       THEN Panic(suspended_signal, drop_gl_state, gl_display, None, None,
                  n_windows, n_negotiations)
       ELSE \E not_current_ok \in BOOLEAN :
           IF ~not_current_ok
           THEN Panic(suspended_signal,
                      drop_gl_state \o <<Call("make_not_current", "", "err")>>,
                      gl_display, None, None, n_windows, n_negotiations)
           ELSE Commit(suspended_signal,
                       drop_gl_state \o <<Call("make_not_current", "", "ok")>>,
                       gl_display,
                       Some(make_not_current(gl_context.val)),
                       None, renderer, exit_state, app_state, exit_requested,
                       pc, n_windows, n_negotiations, n_renderers)
    /\ UNCHANGED << first_error, handler_exit >>

\* ------------------------------------------------------- App::window_event
\* A guard that forgets the height.
resize_arm_width_only(ev) == ev.kind = "Resized" /\ ev.width # 0

\* The first match arm: WindowEvent::Resized(size) if size.width != 0 &&
\* size.height != 0.
resize_arm(ev) == ev.kind = "Resized" /\ ev.width # 0 /\ ev.height # 0

\* A second arm that does not call event_loop.exit() on AppControl::Exit.
handler_outcome_exit_dropped(res) ==
    CASE res.ctl = "Continue" -> [exit_state |-> exit_state, exit |-> exit_requested]
      [] res.ctl = "Exit" -> [exit_state |-> exit_state, exit |-> exit_requested]
      [] res.ctl = "Err" -> [exit_state |-> Err(res.err), exit |-> TRUE]

\* What the second arm does with handle_event's result: the exit state and
\* the loop's exit flag.
handler_outcome(res) ==
    CASE res.ctl = "Continue" -> [exit_state |-> exit_state, exit |-> exit_requested]
      [] res.ctl = "Exit" -> [exit_state |-> exit_state, exit |-> TRUE]
      [] res.ctl = "Err" -> [exit_state |-> Err(res.err), exit |-> TRUE]

\* A resize arm that builds the renderer anew on every resize instead of
\* telling the stored one its new size.
window_event_resize_rebuilds_renderer(ev) ==
    LET k == Signal("window_event", ev)
        made == insert_always(renderer, n_renderers)
    IN  /\ IF ~gl_state.some
           THEN Commit(k, <<>>, gl_display, gl_context, gl_state, renderer,
                       exit_state, app_state, exit_requested, pc, n_windows,
                       n_negotiations, n_renderers)
           ELSE Commit(k, <<Call("surface_resize", "", "ok")>> \o made.calls,
                       gl_display, gl_context,
                       Some([gl_state.val EXCEPT !.gl_surface.width = ev.width,
                                                 !.gl_surface.height = ev.height]),
                       made.renderer, exit_state, app_state, exit_requested,
                       pc, n_windows, n_negotiations, made.n)
        /\ UNCHANGED << first_error, handler_exit >>

window_event_resize(ev) ==
    LET k == Signal("window_event", ev)
    IN  /\ IF ~gl_state.some
           THEN Commit(k, <<>>, gl_display, gl_context, gl_state, renderer,
                       exit_state, app_state, exit_requested, pc, n_windows,
                       n_negotiations, n_renderers)
           ELSE IF ~gl_context.some
           THEN Panic(k, <<>>, gl_display, gl_context, gl_state, n_windows,
                      n_negotiations)
           ELSE LET resized ==
                        Some([gl_state.val EXCEPT !.gl_surface.width = ev.width,
                                                  !.gl_surface.height = ev.height])
                IN  IF ~renderer.some
                    THEN Panic(k, <<Call("surface_resize", "", "ok")>>,
                               gl_display, gl_context, resized, n_windows,
                               n_negotiations)
                    ELSE Commit(k,
                                <<Call("surface_resize", "", "ok"),
                                  Call("renderer_resize", "", "ok")>>,
                                gl_display, gl_context, resized, renderer,
                                exit_state, app_state, exit_requested, pc,
                                n_windows, n_negotiations, n_renderers)
        /\ UNCHANGED << first_error, handler_exit >>

window_event_other(ev) ==
    \E res \in HandlerResults, a \in AppStates :
        LET out == handler_outcome(res)
        IN  /\ Commit(Signal("window_event", ev),
                      <<Call("handle_event", ev.kind, res.ctl)>>,
                      gl_display, gl_context, gl_state, renderer,
                      out.exit_state, a, out.exit, pc, n_windows,
                      n_negotiations, n_renderers)
            /\ first_error' = first_recorded(out.exit_state)
            /\ handler_exit' = (handler_exit \/ res.ctl = "Exit")

window_event ==
    /\ pc = "running"
    /\ \/ \E ev \in OtherEvents :
              IF resize_arm(ev) THEN window_event_resize(ev) ELSE window_event_other(ev)
       \/ \E ev \in ResizedEvents :
              IF resize_arm(ev) THEN window_event_resize(ev) ELSE window_event_other(ev)

\* ------------------------------------------------------ App::about_to_wait
idle_signal == Signal("about_to_wait", NoEvent)

\* An idle cycle that presents the back buffer before it draws into it.
present_then_draw(swap_ok) ==
    << Call("swap_buffers", "", IF swap_ok THEN "ok" ELSE "err"),
       Call("draw", "", "ok"), Call("request_redraw", "", "ok") >>

\* The three calls of about_to_wait's body, in the order of its statements.
draw_then_present(swap_ok) ==
    << Call("draw", "", "ok"), Call("request_redraw", "", "ok"),
       Call("swap_buffers", "", IF swap_ok THEN "ok" ELSE "err") >>

about_to_wait ==
    /\ pc = "running"
    /\ IF ~gl_state.some
       THEN Commit(idle_signal, <<>>, gl_display, gl_context, gl_state, renderer,
                   exit_state, app_state, exit_requested, pc, n_windows,
                   n_negotiations, n_renderers)
       ELSE IF ~gl_context.some \/ ~renderer.some
       THEN Panic(idle_signal, <<>>, gl_display, gl_context, gl_state,
                  n_windows, n_negotiations)
       ELSE \E a \in AppStates, swap_ok \in BOOLEAN :
           Commit(idle_signal, draw_then_present(swap_ok), gl_display,
                  gl_context, gl_state, renderer, exit_state, a,
                  exit_requested, IF swap_ok THEN pc ELSE "panicked",
                  n_windows, n_negotiations, n_renderers)
    /\ UNCHANGED << first_error, handler_exit >>

\* ------------------------------------------------------------ App::exiting
exiting_signal == Signal("exiting", NoEvent)

\* An exiting that clears the window before it takes the context.
exiting_window_first ==
    /\ pc = "running"
    /\ exit_requested
    /\ IF ~gl_context.some
       THEN Panic(exiting_signal,
                  drop_gl_state \o <<Call("take_gl_context", "", "none")>>,
                  gl_display, gl_context, None, n_windows, n_negotiations)
       ELSE Commit(exiting_signal,
                   drop_gl_state \o
                       <<Call("take_gl_context", "", "ok"), Call("display", "", "ok"),
                         Call("drop_context", "", "ok")>>,
                   gl_display, None, None, renderer, exit_state, app_state,
                   exit_requested, "exiting", n_windows, n_negotiations,
                   n_renderers)
    /\ UNCHANGED << first_error, handler_exit >>

\* let _gl_display = self.gl_context.take().unwrap().display();
\* the context taken out of the slot is a temporary, dropped when the
\* statement ends; the loop calls exiting once its exit flag is set.
exiting_take_context ==
    /\ pc = "running"
    /\ exit_requested
    /\ IF ~gl_context.some
       THEN Panic(exiting_signal, <<Call("take_gl_context", "", "none")>>,
                  gl_display, gl_context, gl_state, n_windows, n_negotiations)
       ELSE Commit(exiting_signal,
                   <<Call("take_gl_context", "", "ok"), Call("display", "", "ok"),
                     Call("drop_context", "", "ok")>>,
                   gl_display, None, gl_state, renderer, exit_state, app_state,
                   exit_requested, "exiting", n_windows, n_negotiations,
                   n_renderers)
    /\ UNCHANGED << first_error, handler_exit >>

\* self.gl_state = None; and, with cfg(egl_backend), display.terminate().
exiting_clear_window ==
    /\ pc = "exiting"
    /\ \E egl_backend \in BOOLEAN :
           Commit(exiting_signal,
                  ops \o drop_gl_state
                      \o (IF egl_backend
                          THEN <<Call("terminate_display", "", "ok")>>
                          ELSE <<>>),
                  gl_display, gl_context, None, renderer, exit_state, app_state,
                  exit_requested, "exited", n_windows, n_negotiations,
                  n_renderers)
    /\ UNCHANGED << first_error, handler_exit >>

\* ------------------------------------------------------------- Window::run
\* event_loop.run_app(&mut app)?; app.exit_state
run_return ==
    /\ pc = "exited"
    /\ pc' = "done"
    /\ run_result' = Some(exit_state)
    /\ UNCHANGED << gl_display, gl_context, gl_state, renderer, exit_state,
                    app_state, cursor_grabbed, exit_requested, last, ops,
                    n_windows, n_negotiations, n_renderers, first_error,
                    handler_exit, awake, configs, picked >>

Next ==
    \/ resumed
    \/ suspended
    \/ window_event
    \/ about_to_wait
    \/ exiting_take_context
    \/ exiting_clear_window
    \/ run_return

Spec == Init /\ [][Next]_vars

\* --------------------------------------------- selector runs (PickerSpec)
\* The selector applied to every candidate list up to MaxConfigs long.
PickerInit ==
    /\ gl_display = "Builder"
    /\ gl_context = None
    /\ gl_state = None
    /\ renderer = None
    /\ exit_state = Ok
    /\ app_state = 0
    /\ cursor_grabbed = FALSE
    /\ exit_requested = FALSE
    /\ pc = "running"
    /\ run_result = None
    /\ last = Signal("none", NoEvent)
    /\ ops = <<>>
    /\ n_windows = 0
    /\ n_negotiations = 0
    /\ n_renderers = 0
    /\ first_error = None
    /\ handler_exit = FALSE
    /\ awake = FALSE
    /\ configs \in CandidateSeqs
    /\ picked = None

pick ==
    /\ pc = "running"
    /\ picked = None
    /\ LET r == gl_config_picker(configs)
       IN  /\ picked' = r
           /\ pc' = IF r.some THEN "picked" ELSE "panicked"
    /\ UNCHANGED << gl_display, gl_context, gl_state, renderer, exit_state,
                    app_state, cursor_grabbed, exit_requested, run_result, last,
                    ops, n_windows, n_negotiations, n_renderers, first_error,
                    handler_exit, awake, configs >>

PickerNext == pick

PickerSpec == PickerInit /\ [][PickerNext]_vars

\* ================================================================== claims
\* The calls of a callback, as recorded in ops.
HasCall(o, c) == \E i \in 1..Len(o) : o[i].call = c
HasCallRes(o, c, r) == \E i \in 1..Len(o) : o[i].call = c /\ o[i].res = r
Called(c) == HasCall(ops, c)
Pos(c) == CHOOSE i \in 1..Len(ops) : ops[i].call = c
IsAttempt(c) == c.call = "create_context"
Attempts == SelectSeq(ops, IsAttempt)
Transparent(c) == unwrap_or(c.supports_transparency, FALSE)
SpecExample ==
    << [num_samples |-> 4, supports_transparency |-> Some(FALSE)],
       [num_samples |-> 2, supports_transparency |-> Some(TRUE)],
       [num_samples |-> 8, supports_transparency |-> Some(FALSE)] >>
ZeroResize(ev) == ev.kind = "Resized" /\ (ev.width = 0 \/ ev.height = 0)

\* C1: create_gl_context is called at most once in a run; an activation that
\* finds the display initialized keeps the stored context (identity, config,
\* API level) without calling create_gl_context, and the live resource set it
\* stores holds a window and a surface that did not exist before, the surface
\* made for the stored context's config.
C1_ContextReusedOnReactivation ==
    [][ /\ n_negotiations' <= 1
        /\ (gl_context'.some => gl_context'.val.id = 1)
        /\ (last'.kind = "resumed" /\ gl_display = "Init" =>
              /\ n_negotiations' = n_negotiations
              /\ ~HasCall(ops', "create_gl_context")
              /\ ~HasCall(ops', "create_context")
              /\ gl_context.some /\ gl_context'.some
              /\ gl_context'.val.id = gl_context.val.id
              /\ gl_context'.val.config = gl_context.val.config
              /\ gl_context'.val.api = gl_context.val.api
              /\ (HasCall(ops', "replace_gl_state") =>
                    /\ gl_state'.some
                    /\ gl_state'.val.window > n_windows
                    /\ gl_state'.val.gl_surface.id > n_windows
                    /\ gl_state'.val.gl_surface.config = gl_context.val.config))
      ]_vars

\* C1 witness: a second activation has succeeded after a deactivate, with the
\* first context still stored.
C1_Witness ==
    /\ last.kind = "resumed"
    /\ pc = "running"
    /\ n_windows = 2
    /\ gl_state.some /\ gl_state.val.window = 2
    /\ gl_context.some /\ gl_context.val.id = 1
    /\ n_negotiations = 1

\* C2 (as claimed): whenever some candidate supports transparency, the
\* selected config supports transparency; the spec's example selects
\* (samples=2, transparent=true).
C2_TransparencyAlwaysWins ==
    picked.some =>
        /\ ((\E i \in 1..Len(configs) : Transparent(configs[i])) => Transparent(picked.val))
        /\ (configs = SpecExample => picked.val = SpecExample[2])

\* C2 (amended): the selected config is one of the candidates, and when some
\* candidate supports transparency it either supports transparency or has
\* strictly more samples than some transparency-supporting candidate; the
\* spec's example selects (samples=8, transparent=false).
C2_TransparencyUnlessMoreSamples ==
    picked.some =>
        /\ \E i \in 1..Len(configs) : configs[i] = picked.val
        /\ ((\E i \in 1..Len(configs) : Transparent(configs[i])) =>
              \/ Transparent(picked.val)
              \/ \E i \in 1..Len(configs) :
                    /\ Transparent(configs[i])
                    /\ picked.val.num_samples > configs[i].num_samples)
        /\ (configs = SpecExample => picked.val = SpecExample[3])

\* C2 witness: the selector has run on the spec's example.
C2_Witness == configs = SpecExample /\ picked = Some(SpecExample[3])

\* C3 (as claimed): during shutdown the context is never gone while the
\* surface and window are still live, and the surface and window are dropped
\* before the context.
C3_SurfaceBeforeContext ==
    pc \in {"exiting", "exited", "done"} =>
        /\ (gl_state.some => gl_context.some)
        /\ (Called("drop_surface") /\ Called("drop_context") =>
              Pos("drop_surface") < Pos("drop_context"))

\* C3 (amended): exiting takes the context out and releases it first, while
\* the live (surface, window) pair is still stored; the pair is dropped
\* after it, surface before window; when exiting is over both slots are
\* empty.
C3_ContextBeforeSurface ==
    /\ (pc = "exiting" =>
          /\ ~gl_context.some
          /\ Called("drop_context")
          /\ ~Called("drop_surface"))
    /\ (pc \in {"exited", "done"} =>
          /\ ~gl_context.some
          /\ ~gl_state.some
          /\ Called("drop_context")
          /\ (Called("drop_surface") =>
                /\ Pos("drop_context") < Pos("drop_surface")
                /\ Pos("drop_surface") < Pos("drop_window")))

\* C3 witness: a shutdown that had a live surface and window to drop.
C3_Witness == pc = "exited" /\ Called("drop_surface") /\ Called("drop_context")

\* C4 (as claimed): handle_event is never called for a Resized event, so a
\* resize with a zero dimension reaches no handler and makes no call at all.
C4_ZeroResizeIgnored ==
    /\ (Called("handle_event") => last.event.kind # "Resized")
    /\ (last.kind = "window_event" /\ ZeroResize(last.event) => ops = <<>>)

\* C5: the surface resize and the renderer's resize are called only by a
\* window_event for Resized with non-zero width and height, while a live
\* resource set exists.
C5_ResizeOnlyNonZeroAndLive ==
    (Called("surface_resize") \/ Called("renderer_resize")) =>
        /\ last.kind = "window_event"
        /\ last.event.kind = "Resized"
        /\ last.event.width # 0
        /\ last.event.height # 0
        /\ gl_state.some

\* C5 witness: a resize has reached the surface and the renderer.
C5_Witness ==
    /\ Called("surface_resize") /\ Called("renderer_resize")
    /\ pc = "running"
    /\ gl_state.val.gl_surface.width = last.event.width

\* C6 (as claimed): when the first error of a run is one that handle_event
\* returned, run returns exactly that error (stated for the runs in which
\* the error stored at shutdown came from handle_event as well).
C6_HandlerErrorReturned ==
    (/\ pc = "done"
     /\ first_error.some /\ first_error.val \in HandlerErrors
     /\ ~exit_state.ok /\ exit_state.err \in HandlerErrors) =>
        run_result = Some(Err(first_error.val))

\* C7 (as claimed): once handle_event has returned AppControl::Exit, no idle
\* cycle draws or presents, and run returns success.
C7_NoPresentationAfterExit ==
    /\ (handler_exit /\ last.kind = "about_to_wait" /\ pc = "running" =>
          ~Called("draw") /\ ~Called("swap_buffers"))
    /\ (handler_exit /\ pc = "done" => run_result = Some(Ok))

\* C7 (amended): a window_event whose handler returns AppControl::Exit sets
\* the loop's exit flag, leaves exit_state as it was and neither draws nor
\* presents; run returns the exit_state the shutdown found (success exactly
\* when no event stored an error); once exiting has begun no callback runs,
\* so nothing is drawn or presented from then on.
C7_ExitRequestsShutdown ==
    /\ [][ HasCallRes(ops', "handle_event", "Exit") =>
              /\ exit_requested'
              /\ exit_state' = exit_state
              /\ ~HasCall(ops', "draw")
              /\ ~HasCall(ops', "swap_buffers") ]_vars
    /\ [](pc \in {"exiting", "exited", "done"} => last.kind = "exiting")
    /\ [](pc = "done" => run_result = Some(exit_state))

\* C7 witness: the handler asked for the exit and run returned success.
C7_Witness == handler_exit /\ pc = "done" /\ run_result = Some(Ok)

\* C8 (as claimed): after a realization failure was recorded as the run's
\* first error, exiting does not panic.
C8_RealizationFailureReturned ==
    (last.kind = "exiting" /\ first_error = Some(RealizeError)) => pc # "panicked"

\* C9: R::new is called at most once in a run, only by resumed, right after
\* the function loading that follows a successful make_current on a surface
\* just created; the renderer stored is always that first one.
C9_RendererConstructedOnce ==
    /\ n_renderers <= 1
    /\ (renderer.some => renderer.val = 1 /\ n_renderers = 1)
    /\ (Called("R::new") =>
          /\ last.kind = "resumed"
          /\ Pos("R::new") >= 4
          /\ ops[Pos("R::new") - 1].call = "load_with"
          /\ ops[Pos("R::new") - 2] = Call("make_current", "", "ok")
          /\ ops[Pos("R::new") - 3] = Call("create_window_surface", "", "ok")
          /\ gl_context.some /\ gl_context.val.current
          /\ gl_state.some)

\* C9 witness: a later activation has kept the renderer of the first one.
C9_Witness ==
    /\ last.kind = "resumed"
    /\ pc = "running"
    /\ n_windows = 2
    /\ gl_state.some
    /\ renderer = Some(1)
    /\ ~Called("R::new")

\* C10: the create_context attempts of create_gl_context are a prefix of
\* (default, GLES, OpenGL 2.1) in that order; every attempt but the last was
\* rejected; when the last was accepted the stored context has that API level
\* and no further attempt was made; only three rejections panic.
C10_FallbackOrder ==
    /\ (~Called("create_gl_context") => Attempts = <<>>)
    /\ (Called("create_gl_context") =>
          /\ Len(Attempts) \in 1..3
          /\ \A i \in 1..Len(Attempts) : Attempts[i].arg = ApiLevels[i]
          /\ \A i \in 1..(Len(Attempts) - 1) : Attempts[i].res = "err"
          /\ IF Attempts[Len(Attempts)].res = "ok"
             THEN /\ gl_context.some
                  /\ gl_context.val.api = Attempts[Len(Attempts)].arg
             ELSE /\ Len(Attempts) = 3
                  /\ pc = "panicked"
                  /\ ~gl_context.some)

\* C10 witness: the default request was rejected, GLES accepted, and the
\* legacy level never tried.
C10_Witness ==
    /\ Called("create_gl_context")
    /\ Len(Attempts) = 2
    /\ gl_context.some /\ gl_context.val.api = "Gles(None)"
    /\ pc = "running"

\* The fields of App and of the loop around it, without the history of calls.
AppFields ==
    << gl_display, gl_context, gl_state, renderer, exit_state, app_state,
       cursor_grabbed, exit_requested, pc, run_result, n_windows,
       n_negotiations, n_renderers >>

\* The calls that bring a window, a surface, a context or a renderer into
\* being.
CreationCalls ==
    {"build", "finalize_window", "create_window_surface", "create_gl_context",
     "create_context", "R::new"}

\* C11: a window_event for a Resized with non-zero width and height never
\* records an error, never asks the loop to exit, never panics and creates
\* no window, surface, context or renderer: the context, the renderer, the
\* window and the surface's identity stay what they were, and a live surface
\* has the event's size afterwards.  When the signal handled just before was
\* the same Resized (the same event twice in a row), the second handling
\* leaves every field as the first left it.
C11_RepeatedResizeIdempotent ==
    [][(last'.kind = "window_event" /\ resize_arm(last'.event)) =>
          /\ pc' = pc
          /\ exit_state' = exit_state
          /\ exit_requested' = exit_requested
          /\ gl_display' = gl_display
          /\ gl_context' = gl_context
          /\ renderer' = renderer
          /\ n_windows' = n_windows
          /\ n_negotiations' = n_negotiations
          /\ n_renderers' = n_renderers
          /\ \A c \in CreationCalls : ~HasCall(ops', c)
          /\ gl_state'.some = gl_state.some
          /\ (gl_state.some =>
                /\ gl_state'.val.window = gl_state.val.window
                /\ gl_state'.val.gl_surface.id = gl_state.val.gl_surface.id
                /\ gl_state'.val.gl_surface.width = last'.event.width
                /\ gl_state'.val.gl_surface.height = last'.event.height)
          /\ (last = last' => UNCHANGED AppFields)]_vars

\* C11 witness: a non-zero Resized has resized the live surface and the
\* renderer; handling the same Resized again ends in this very state.
C11_Witness ==
    /\ last.kind = "window_event"
    /\ resize_arm(last.event)
    /\ pc = "running"
    /\ gl_state.some
    /\ gl_state.val.gl_surface.width = last.event.width
    /\ gl_state.val.gl_surface.height = last.event.height
    /\ Called("surface_resize")
    /\ Called("renderer_resize")

\* The reference selection of C12, written position by position: the first
\* candidate seeds it, and the candidate at position i replaces what was
\* kept up to i - 1 exactly when it supports transparency and the kept one
\* does not, or when its sample count is strictly greater.
ReferenceFold(cs) ==
    LET kept[i \in 1..Len(cs)] ==
            IF i = 1
            THEN cs[1]
            ELSE IF \/ (Transparent(cs[i]) /\ ~Transparent(kept[i - 1]))
                    \/ cs[i].num_samples > kept[i - 1].num_samples
                 THEN cs[i]
                 ELSE kept[i - 1]
    IN  kept[Len(cs)]

\* The earliest candidate whose sample count no candidate exceeds.
EarliestMaxSamples(cs) ==
    LET i == CHOOSE i \in 1..Len(cs) :
                 /\ \A j \in 1..Len(cs) : cs[j].num_samples <= cs[i].num_samples
                 /\ \A j \in 1..(i - 1) : cs[j].num_samples < cs[i].num_samples
    IN  cs[i]

TwoOpaque ==
    << [num_samples |-> 1, supports_transparency |-> Some(FALSE)],
       [num_samples |-> 4, supports_transparency |-> Some(FALSE)] >>

\* C12: on every non-empty candidate sequence gl_config_picker returns what
\* the reference selection returns; the result is one of the candidates;
\* when no candidate supports transparency it is the earliest candidate with
\* the maximal sample count, so [(1,false), (4,false)] selects (4,false).
C12_PickerIsReferenceFold ==
    /\ (configs # <<>> /\ picked.some =>
          /\ picked.val = ReferenceFold(configs)
          /\ \E i \in 1..Len(configs) : picked.val = configs[i]
          /\ ((\A i \in 1..Len(configs) : ~Transparent(configs[i])) =>
                picked.val = EarliestMaxSamples(configs))
          /\ (configs = TwoOpaque => picked.val = TwoOpaque[2]))
    /\ (pc = "picked" => configs # <<>> /\ picked.some)

\* C12 witness: three candidates without transparency, the maximal sample
\* count offered twice, and the earlier of the two selected.
C12_Witness ==
    /\ pc = "picked"
    /\ Len(configs) = 3
    /\ \A i \in 1..3 : ~Transparent(configs[i])
    /\ configs[1].num_samples = 1
    /\ configs[2].num_samples = 4
    /\ configs[3].num_samples = 4
    /\ configs[2] # configs[3]
    /\ picked = Some(configs[2])

\* The assertion at the end of resumed failed in the callback handled last.
AssertFailed(o, p) == p = "panicked" /\ HasCall(o, "replace_gl_state")

\* C13 (as claimed): an activate delivered while a live resource set exists
\* ends in the final assertion failing: after a resumed a stored pair is
\* always one that this resumed has put through replace, and a pair is only
\* stored while the lifecycle signal handled last was resumed.
C13_ActivateOnLiveSetFailsAssertion ==
    /\ (gl_state.some => awake)
    /\ (last.kind = "resumed" /\ gl_state.some => Called("replace_gl_state"))

\* C13 (amended): a pair is only stored while the lifecycle signal handled
\* last was resumed, so a resumed that follows a suspended (or is the first)
\* finds no pair and never fails the final assertion.  A resumed that finds
\* a pair never leaves the loop running with another pair in its place: when
\* it reaches the replace, the assertion fails; when the window realization
\* fails it stores the error, asks for the exit and leaves the pair as it
\* was; when an earlier step panics the pair is left as it was too.
C13_NoSilentReplacement ==
    [][ /\ (gl_state.some => awake)
        /\ (gl_state'.some => awake')
        /\ (last'.kind = "resumed" /\ ~awake =>
              /\ ~gl_state.some
              /\ ~AssertFailed(ops', pc'))
        /\ (last'.kind = "resumed" /\ gl_state.some =>
              IF HasCall(ops', "replace_gl_state")
              THEN AssertFailed(ops', pc')
              ELSE /\ gl_state' = gl_state
                   /\ \/ pc' = "panicked"
                      \/ /\ pc' = pc
                         /\ exit_state' = Err(RealizeError)
                         /\ exit_requested')
        /\ (AssertFailed(ops', pc') /\ last'.kind = "resumed" => gl_state.some)
      ]_vars

\* C13 witness: a second activate arrived while the first one's pair was
\* stored, got as far as the replace, and the assertion failed.
C13_Witness ==
    /\ last.kind = "resumed"
    /\ awake
    /\ n_windows = 2
    /\ Called("replace_gl_state")
    /\ pc = "panicked"
    /\ gl_state.some

\* C14: an about_to_wait that finds a live (surface, window) pair makes
\* exactly three calls, draw, then request_redraw, then swap_buffers, and
\* changes no field of App but the caller's state; one that finds no pair
\* makes no call and changes nothing.
C14_IdleCycleOrder ==
    [][last'.kind = "about_to_wait" =>
          IF gl_state.some
          THEN /\ Len(ops') = 3
               /\ ops'[1].call = "draw"
               /\ ops'[2].call = "request_redraw"
               /\ ops'[3].call = "swap_buffers"
               /\ gl_state' = gl_state
               /\ gl_context' = gl_context
               /\ renderer' = renderer
               /\ exit_state' = exit_state
               /\ exit_requested' = exit_requested
               /\ (pc' # pc => pc' = "panicked" /\ ops'[3].res = "err")
          ELSE /\ ops' = <<>>
               /\ UNCHANGED AppFields]_vars

\* C14 witness: an idle cycle with a live pair has drawn, asked for the next
\* redraw and presented, and the loop goes on.
C14_Witness ==
    /\ last.kind = "about_to_wait"
    /\ gl_state.some
    /\ Len(ops) = 3
    /\ ops[1].call = "draw"
    /\ ops[3] = Call("swap_buffers", "", "ok")
    /\ pc = "running"

\* C15: gl_display only ever goes from Builder to Init, and only in a resumed
\* that started from Builder and whose display_builder.build succeeded; once
\* Init it stays Init through every later signal, deactivate and re-activate
\* included; a resumed whose build failed leaves it Builder.
C15_DisplayStateOneWay ==
    [][ /\ gl_display \in {"Builder", "Init"}
        /\ gl_display' \in {"Builder", "Init"}
        /\ (gl_display' # gl_display =>
              /\ gl_display = "Builder"
              /\ gl_display' = "Init"
              /\ last'.kind = "resumed"
              /\ HasCallRes(ops', "build", "ok")
              /\ n_negotiations = 0
              /\ n_windows = 0)
        /\ (gl_display = "Init" => gl_display' = "Init")
        /\ (last'.kind = "resumed" /\ HasCallRes(ops', "build", "err") =>
              /\ gl_display = "Builder"
              /\ gl_display' = "Builder"
              /\ exit_state' = Err(RealizeError))
      ]_vars

\* C15 witness: after two activations and a deactivate following the second,
\* the display state is still Init.
C15_Witness ==
    /\ gl_display = "Init"
    /\ last.kind = "suspended"
    /\ n_windows = 2
    /\ n_negotiations = 1
    /\ pc = "running"

\* The calls that draw, present or resize a surface.
SurfaceCalls == {"draw", "swap_buffers", "surface_resize", "renderer_resize"}

C17_VsyncFailureNotFatal ==
    [][ /\ (last'.kind = "resumed"
              /\ HasCallRes(ops', "set_swap_interval", "err") =>
              /\ HasCall(ops', "replace_gl_state")
              /\ gl_state'.some
              /\ gl_context'.some /\ gl_context'.val.current
              /\ renderer'.some
              /\ exit_state' = exit_state
              /\ exit_requested' = exit_requested
              /\ pc' = (IF gl_state.some THEN "panicked" ELSE pc))
        /\ (last.kind = "resumed" /\ HasCallRes(ops, "set_swap_interval", "err")
              /\ pc = "running" /\ last'.kind = "about_to_wait" =>
              /\ HasCall(ops', "draw")
              /\ HasCall(ops', "swap_buffers"))
      ]_vars

\* C17 witness: vsync was rejected in an activation that stored its pair and
\* left the loop running without an error or an exit request.
C17_Witness ==
    /\ last.kind = "resumed"
    /\ HasCallRes(ops, "set_swap_interval", "err")
    /\ Called("replace_gl_state")
    /\ gl_state.some
    /\ exit_state = Ok
    /\ ~exit_requested
    /\ pc = "running"

\* C18 (as claimed): once exit_state holds an error no later event changes
\* it, and run returns the first error that was stored (stated for a first
\* error that handle_event returned; while the window is live exit_state
\* still holds it, and at the end run returns it).
C18_FirstErrorKept ==
    /\ (first_error.some /\ first_error.val \in HandlerErrors /\ gl_state.some =>
          exit_state = Err(first_error.val))
    /\ (first_error.some /\ first_error.val \in HandlerErrors /\ pc = "done" =>
          run_result = Some(Err(first_error.val)))

\* C19: whenever the loop is between two callbacks (run is neither inside
\* exiting nor unwinding), a stored (surface, window) pair comes with a stored
\* context and a stored renderer; no about_to_wait and no Resized arm ever
\* panics on an absent context or renderer: an about_to_wait only panics
\* after a failed swap_buffers, and a window_event never panics.
C19_LiveSetImpliesContextAndRenderer ==
    /\ (pc = "running" /\ gl_state.some =>
          /\ gl_context.some
          /\ gl_context.val.current
          /\ renderer.some)
    /\ (pc = "panicked" /\ last.kind = "about_to_wait" =>
          HasCallRes(ops, "swap_buffers", "err"))
    /\ (last.kind = "window_event" => pc # "panicked")

\* C19 witness: a non-zero Resized handled after deactivate and re-activate
\* found the pair, the context and the renderer all stored.
C19_Witness ==
    /\ pc = "running"
    /\ last.kind = "window_event"
    /\ Called("surface_resize") /\ Called("renderer_resize")
    /\ n_windows = 2
    /\ gl_state.some /\ gl_context.some /\ renderer.some

\* C20: in every reachable state a stored context implies gl_display = Init;
\* while gl_display = Builder there is no stored context, no stored
\* (surface, window) pair and no renderer, and create_gl_context has not
\* been called.
C20_ContextOnlyWhenInitialized ==
    /\ (gl_context.some => gl_display = "Init")
    /\ (gl_display = "Builder" =>
          /\ ~gl_context.some
          /\ ~gl_state.some
          /\ ~renderer.some
          /\ n_negotiations = 0
          /\ n_renderers = 0)

\* C20 witness: the first activation has built the display, created the
\* context and left gl_display at Init.
C20_Witness ==
    /\ last.kind = "resumed"
    /\ Called("create_gl_context")
    /\ gl_context.some
    /\ gl_display = "Init"
    /\ n_negotiations = 1
    /\ pc = "running"

====
